---------------------------- MODULE Spec2Model ----------------------------
(***************************************************************************)
(* Roadmap Health Dashboard (src/app.py).                                  *)
(*                                                                         *)
(* The module models the three metric calculators (identify_blockers,      *)
(* calculate_velocity, calculate_feature_progress) as operators computed   *)
(* the way the Python code computes them, the data fetcher                 *)
(* get_github_data with its two exception handlers, load_config and the    *)
(* render cycle of main().                                                 *)
(*                                                                         *)
(* Representation choices:                                                 *)
(*   - a Python dict is a TLA+ record (a function on its keys), so         *)
(*     d.get(k, default) is a test on DOMAIN d;                            *)
(*   - a Python list is a sequence;                                        *)
(*   - a status string is a sequence of one-character strings, so that     *)
(*     str.lower() and the "in" substring test are computed character by   *)
(*     character;                                                          *)
(*   - a point in time is an integer number of clock ticks, TicksPerDay    *)
(*     ticks to a calendar day; calendar day k covers the ticks            *)
(*     k*TicksPerDay .. (k+1)*TicksPerDay - 1;                             *)
(*   - a float quotient a / b is the fraction <<a, b>> in lowest terms.    *)
(***************************************************************************)
EXTENDS Integers, Sequences, FiniteSets, TLC

VARIABLES
    pc,               \* position of the running call / of main()
    prs,              \* argument: list of PR records
    issues,           \* argument: list of issue records
    commits,          \* argument: list of commit records
    pr_threshold,     \* argument of identify_blockers / sidebar input of main
    issue_threshold,  \* argument of identify_blockers
    days,             \* argument of calculate_velocity
    now,              \* datetime.now() of the call
    blockers,         \* result of identify_blockers
    velocity,         \* result of calculate_velocity
    feature_progress, \* result of calculate_feature_progress
    config,           \* result of load_config
    hub,              \* what the hosting API serves: the resolved repositories
    fault,            \* the API call that raises during this fetch, if any
    github_data,      \* result of get_github_data
    called            \* calculators main() has invoked in this cycle

vars == <<pc, prs, issues, commits, pr_threshold, issue_threshold, days, now,
          blockers, velocity, feature_progress, config, hub, fault,
          github_data, called>>

-----------------------------------------------------------------------------
(* Bounds of the model *)

\* longest PR list plus issue list handed to identify_blockers
MaxItems == 2
\* largest days_open of an input record
MaxDays == 8
\* largest threshold argument (thresholds are integers >= 1)
MaxThreshold == 7
\* longest issue list handed to calculate_feature_progress
MaxStatusIssues == 3
\* longest commit list handed to calculate_velocity
MaxCommits == 3
\* largest window (days argument) of calculate_velocity
MaxWindow == 1
\* clock ticks per calendar day: the resolution of the model's clock
TicksPerDay == 2
\* oldest commit timestamp, in ticks before the start of today
MaxAge == 3

\* longest repository list the hosting API resolves
MaxRepos == 2

(* Constants of the program *)

\* the literal 7 of the severity rule (line 228)
SeverityHighDays == 7
\* defaults of identify_blockers' threshold parameters (line 219)
DefaultPRThreshold == 3
DefaultIssueThreshold == 7
\* default of calculate_velocity's days parameter (line 252)
DefaultWindow == 7
\* blockers section of default_config (lines 65-66)
ConfigPRThresholdDays == 3
ConfigIssueThresholdDays == 7
\* fallback of the sidebar's threshold input (line 304)
SidebarPRThresholdFallback == 3
\* commit.sha[:7] (line 140)
ShortShaLen == 7
\* list(g.get_user().get_repos())[:10] (line 99)
UserRepoLimit == 10

-----------------------------------------------------------------------------
(* Small helpers *)

\* all sequences over S of length at most n
SeqsUpTo(S, n) == UNION {[1..k -> S] : k \in 0..n}

RECURSIVE GCD(_, _)
GCD(a, b) == IF b = 0 THEN a ELSE GCD(b, a % b)

\* Python's a / b for integers a >= 0, b > 0: the exact quotient
Quotient(a, b) == <<a \div GCD(a, b), b \div GCD(a, b)>>

Digit == <<"0", "1", "2", "3", "4", "5", "6", "7", "8", "9">>

\* str(n) of a non-negative integer, as the f-strings format it
RECURSIVE IntStr(_)
IntStr(n) == IF n < 10 THEN Digit[n + 1]
             ELSE IntStr(n \div 10) \o Digit[(n % 10) + 1]

-----------------------------------------------------------------------------
(* identify_blockers *)

PRIsBlockerAtOrOver(pr, threshold) == pr.days_open >= threshold

\* line 225: if pr["days_open"] > pr_threshold
PRIsBlocker(pr, threshold) == pr.days_open > threshold

PRSeverityByDefaultThreshold(pr) ==
    IF pr.days_open > DefaultPRThreshold THEN "high" ELSE "medium"

\* line 228: "high" if pr["days_open"] > 7 else "medium"
PRSeverity(pr) == IF pr.days_open > SeverityHighDays THEN "high" ELSE "medium"

\* lines 226-234
PRBlocker(pr) ==
    [type        |-> "PR",
     severity    |-> PRSeverity(pr),
     title       |-> pr.title,
     repo        |-> pr.repo,
     days        |-> pr.days_open,
     url         |-> pr.url,
     description |-> "PR #" \o IntStr(pr.number) \o " open for "
                        \o IntStr(pr.days_open) \o " days"]

IssueIsBlockerAnyAssignee(issue, threshold) == issue.days_open > threshold

\* line 238: issue.get("assignee") == "Unassigned" and issue["days_open"] > issue_threshold
IssueIsBlocker(issue, threshold) ==
    /\ "assignee" \in DOMAIN issue
    /\ issue.assignee = "Unassigned"
    /\ issue.days_open > threshold

\* lines 239-247
IssueBlocker(issue) ==
    [type        |-> "Issue",
     severity    |-> "medium",
     title       |-> issue.title,
     repo        |-> issue.repo,
     days        |-> issue.days_open,
     url         |-> issue.url,
     description |-> "Issue #" \o IntStr(issue.number) \o " unassigned for "
                        \o IntStr(issue.days_open) \o " days"]

\* the two for loops: one append per record that passes its test, in input order
RECURSIVE PRBlockers(_, _)
PRBlockers(ps, threshold) ==
    IF ps = <<>> THEN <<>>
    ELSE (IF PRIsBlocker(Head(ps), threshold) THEN <<PRBlocker(Head(ps))>> ELSE <<>>)
         \o PRBlockers(Tail(ps), threshold)

RECURSIVE IssueBlockers(_, _)
IssueBlockers(is, threshold) ==
    IF is = <<>> THEN <<>>
    ELSE (IF IssueIsBlocker(Head(is), threshold) THEN <<IssueBlocker(Head(is))>> ELSE <<>>)
         \o IssueBlockers(Tail(is), threshold)

\* sorted(..., key=lambda x: x["days"]) without reverse=True: ascending, stable
RECURSIVE SortedByDaysAscending(_)
SortedByDaysAscending(bs) ==
    IF bs = <<>> THEN <<>>
    ELSE LET rest == SortedByDaysAscending(SubSeq(bs, 1, Len(bs) - 1))
             x    == bs[Len(bs)]
         IN  SelectSeq(rest, LAMBDA b : b.days <= x.days) \o <<x>>
               \o SelectSeq(rest, LAMBDA b : b.days > x.days)

\* line 249: sorted(blockers, key=lambda x: x["days"], reverse=True).
\* Python's sort is stable and reverse=True keeps the input order of records with
\* equal keys: each record goes behind every record whose days is >= its own.
RECURSIVE SortedByDaysReverse(_)
SortedByDaysReverse(bs) ==
    IF bs = <<>> THEN <<>>
    ELSE LET rest == SortedByDaysReverse(SubSeq(bs, 1, Len(bs) - 1))
             x    == bs[Len(bs)]
         IN  SelectSeq(rest, LAMBDA b : b.days >= x.days) \o <<x>>
               \o SelectSeq(rest, LAMBDA b : b.days < x.days)

\* lines 219-249
identify_blockers(ps, is, prt, ist) ==
    SortedByDaysReverse(PRBlockers(ps, prt) \o IssueBlockers(is, ist))

-----------------------------------------------------------------------------
(* calculate_feature_progress *)

UpperLetters == <<"A", "B", "C", "D", "E", "F", "G", "H", "I", "J", "K", "L", "M",
                  "N", "O", "P", "Q", "R", "S", "T", "U", "V", "W", "X", "Y", "Z">>
LowerLetters == <<"a", "b", "c", "d", "e", "f", "g", "h", "i", "j", "k", "l", "m",
                  "n", "o", "p", "q", "r", "s", "t", "u", "v", "w", "x", "y", "z">>

\* str.lower() on one character
LowerChar(c) ==
    IF \E k \in DOMAIN UpperLetters : UpperLetters[k] = c
    THEN LowerLetters[CHOOSE k \in DOMAIN UpperLetters : UpperLetters[k] = c]
    ELSE c

\* str.lower()
Lower(str) == [k \in DOMAIN str |-> LowerChar(str[k])]

\* sub in str
Contains(str, sub) ==
    \E k \in 0..(Len(str) - Len(sub)) : SubSeq(str, k + 1, k + Len(sub)) = sub

StrDone      == <<"d", "o", "n", "e">>
StrClosed    == <<"c", "l", "o", "s", "e", "d">>
StrCompleted == <<"c", "o", "m", "p", "l", "e", "t", "e", "d">>
StrProgress  == <<"p", "r", "o", "g", "r", "e", "s", "s">>

\* issue.get("status", "")
StatusOf(issue) == IF "status" \in DOMAIN issue THEN issue.status ELSE <<>>

IsCompletedCaseSensitive(issue) ==
    StatusOf(issue) \in {StrDone, StrClosed, StrCompleted}

\* line 208: issue.get("status", "").lower() in ["done", "closed", "completed"]
IsCompleted(issue) ==
    Lower(StatusOf(issue)) \in {StrDone, StrClosed, StrCompleted}

\* line 214: "progress" in issue.get("status", "").lower()
IsInProgress(issue) == Contains(Lower(StatusOf(issue)), StrProgress)

\* sum(1 for issue in issues if ...)
CountCompleted(is) == Cardinality({k \in DOMAIN is : IsCompleted(is[k])})
CountInProgress(is) == Cardinality({k \in DOMAIN is : IsInProgress(is[k])})

\* line 209: (completed / total * 100) if total > 0 else 0
Percentage(completed, total) ==
    IF total > 0
    THEN LET q == Quotient(completed, total) IN Quotient(q[1] * 100, q[2])
    ELSE <<0, 1>>

\* lines 202-216
calculate_feature_progress(is) ==
    IF is = <<>>
    THEN [total |-> 0, completed |-> 0, percentage |-> <<0, 1>>]
    ELSE [total       |-> Len(is),
          completed   |-> CountCompleted(is),
          in_progress |-> CountInProgress(is),
          percentage  |-> Percentage(CountCompleted(is), Len(is))]

-----------------------------------------------------------------------------
(* calculate_velocity *)

\* A commit's "date" is an ISO-8601 string: a wall-clock reading and a zone
\* suffix, [wall |-> tick, tz |-> "Z" or an offset such as "-05:00"].

\* c["date"].replace("Z", "+00:00")
ReplaceZ(date) == IF date.tz = "Z" THEN [date EXCEPT !.tz = "+00:00"] ELSE date

\* datetime.fromisoformat(...): an aware datetime, same wall clock, same offset
FromIsoFormat(date) == [wall |-> date.wall, tzinfo |-> date.tz]

\* .replace(tzinfo=None): the wall-clock reading with its offset dropped
Naive(dt) == dt.wall

\* .date(): the calendar day of the wall-clock reading
DateOf(dt) == dt.wall \div TicksPerDay

\* line 254: datetime.now() - timedelta(days=days)
CutoffDate(t, d) == t - d * TicksPerDay

InWindowOrAtCutoff(c, cutoff) == Naive(FromIsoFormat(ReplaceZ(c.date))) >= cutoff

\* line 258: the parsed, zone-stripped date is > cutoff_date
InWindow(c, cutoff) == Naive(FromIsoFormat(ReplaceZ(c.date))) > cutoff

\* lines 256-259
RecentCommits(cs, cutoff) == SelectSeq(cs, LAMBDA c : InWindow(c, cutoff))

\* lines 262-265: commits_by_day[date] = commits_by_day.get(date, 0) + 1
RECURSIVE CommitsByDay(_)
CommitsByDay(recent) ==
    IF recent = <<>> THEN <<>>
    ELSE LET by   == CommitsByDay(SubSeq(recent, 1, Len(recent) - 1))
             date == DateOf(FromIsoFormat(ReplaceZ(recent[Len(recent)].date)))
         IN  [d \in (DOMAIN by) \cup {date} |->
                 (IF d \in DOMAIN by THEN by[d] ELSE 0) + (IF d = date THEN 1 ELSE 0)]

\* lines 252-272; t is datetime.now()
calculate_velocity(cs, ps, d, t) ==
    LET recent_commits == RecentCommits(cs, CutoffDate(t, d)) IN
    [commits_last_7d |-> Len(recent_commits),
     commits_per_day |-> IF d > 0 THEN Quotient(Len(recent_commits), d) ELSE <<0, 1>>,
     commits_by_day  |-> CommitsByDay(recent_commits),
     total_commits   |-> Len(cs)]

-----------------------------------------------------------------------------
(* load_config *)

\* lines 46-68, with GITHUB_ORG and JIRA_URL unset in the environment
DefaultConfig ==
    [github   |-> [org |-> "", repos |-> <<>>],
     jira     |-> [enabled |-> FALSE, url |-> "", project_key |-> ""],
     linear   |-> [enabled |-> FALSE, team_id |-> ""],
     asana    |-> [enabled |-> FALSE, workspace_id |-> ""],
     blockers |-> [pr_threshold_days    |-> ConfigPRThresholdDays,
                   issue_threshold_days |-> ConfigIssueThresholdDays]]

\* dict.update: a top-level key of the second dict replaces the first dict's
\* value whole (no merge of nested sections)
DictUpdate(d, u) ==
    [k \in (DOMAIN d) \cup (DOMAIN u) |-> IF k \in DOMAIN u THEN u[k] ELSE d[k]]

\* lines 44-75; file.exists is os.path.exists("config.yaml"), file.yaml is
\* yaml.safe_load(f) or {}
load_config(file) ==
    IF file.exists THEN DictUpdate(DefaultConfig, file.yaml) ELSE DefaultConfig

\* line 304: config.get("blockers", {}).get("pr_threshold_days", 3)
SidebarPRThresholdValue(cfg) ==
    IF "blockers" \in DOMAIN cfg /\ "pr_threshold_days" \in DOMAIN cfg.blockers
    THEN cfg.blockers.pr_threshold_days
    ELSE SidebarPRThresholdFallback

-----------------------------------------------------------------------------
(* get_github_data *)

\* The hosting API serves hub, the sequence of repositories the resolution of
\* lines 94-99 yields; a repository is
\*   [pulls   : sequence of [number, created_at],
\*    issues  : sequence of [number, created_at, assignee, pull_request],
\*    commits : sequence of [sha, date, message],
\*    stars, forks, open_issues]
\* and its full_name is given by its place.  fault names the one API call of
\* the fetch that raises: call f.call on repository f.repo, after it has
\* yielded f.after items.

RepoName(k) == "org/repo" \o IntStr(k)

Fails(f, k, call) == f.repo = k /\ f.call = call

\* the items a listing yields before it raises, all of them if it does not
Yielded(items, f, k, call) ==
    IF Fails(f, k, call) THEN SubSeq(items, 1, f.after) ELSE items

\* lines 106, 121: (datetime.now() - created_at.replace(tzinfo=None)).days
DaysOpen(t, created_at) == (t - created_at) \div TicksPerDay

\* lines 107-115
PRRecord(repo_name, pr, t) ==
    [repo       |-> repo_name,
     number     |-> pr.number,
     title      |-> "pr",
     author     |-> "dev",
     created_at |-> pr.created_at,
     days_open  |-> DaysOpen(t, pr.created_at),
     url        |-> "pull"]

\* a fetch of issues in every state that records each issue's state as its status
IssueRecordWithState(repo_name, issue, t) ==
    [repo       |-> repo_name,
     number     |-> issue.number,
     title      |-> "issue",
     author     |-> "dev",
     assignee   |-> IF issue.assignee # "None" THEN issue.assignee ELSE "Unassigned",
     created_at |-> issue.created_at,
     days_open  |-> DaysOpen(t, issue.created_at),
     labels     |-> <<>>,
     url        |-> "issues",
     status     |-> <<"c", "l", "o", "s", "e", "d">>]

\* lines 122-132: no "status" key
IssueRecord(repo_name, issue, t) ==
    [repo       |-> repo_name,
     number     |-> issue.number,
     title      |-> "issue",
     author     |-> "dev",
     assignee   |-> IF issue.assignee # "None" THEN issue.assignee ELSE "Unassigned",
     created_at |-> issue.created_at,
     days_open  |-> DaysOpen(t, issue.created_at),
     labels     |-> <<>>,
     url        |-> "issues"]

\* lines 138-144: sha[:7], isoformat() of the author date, first line of the message
CommitRecord(repo_name, commit) ==
    [repo    |-> repo_name,
     sha     |-> SubSeq(commit.sha, 1, ShortShaLen),
     author  |-> "dev",
     date    |-> [wall |-> commit.date.wall, tz |-> commit.date.tzinfo],
     message |-> Head(commit.message)]

\* lines 148-153
RepoSummary(repo_name, repo) ==
    [name        |-> repo_name,
     stars       |-> repo.stars,
     forks       |-> repo.forks,
     open_issues |-> repo.open_issues]

\* lines 105-115
AppendPRs(data, repo_name, pulls, t) ==
    [data EXCEPT !.prs = @ \o [i \in 1..Len(pulls) |-> PRRecord(repo_name, pulls[i], t)]]

\* lines 118-132: entries that are pull requests are skipped
AppendIssues(data, repo_name, items, t) ==
    LET real == SelectSeq(items, LAMBDA x : ~x.pull_request) IN
    [data EXCEPT !.issues =
        @ \o [i \in 1..Len(real) |-> IssueRecord(repo_name, real[i], t)]]

\* lines 137-144
AppendCommits(data, repo_name, cs) ==
    [data EXCEPT !.commits =
        @ \o [i \in 1..Len(cs) |-> CommitRecord(repo_name, cs[i])]]

\* lines 102-153, one pass of the loop over repos_list: the state of data when
\* the pass ends, and whether it ended by an exception that left the loop
FetchRepo(data, repo, k, f, t) ==
    LET name == RepoName(k)
        d1   == AppendPRs(data, name, Yielded(repo.pulls, f, k, "get_pulls"), t)
        d2   == AppendIssues(d1, name, Yielded(repo.issues, f, k, "get_issues"), t)
        \* try ... except: pass (lines 135-146): what was appended stays
        d3   == AppendCommits(d2, name, Yielded(repo.commits, f, k, "get_commits"))
        d4   == [d3 EXCEPT !.repos = Append(@, RepoSummary(name, repo))]
    IN  IF Fails(f, k, "get_repo")   THEN [raised |-> TRUE, data |-> data]
        ELSE IF Fails(f, k, "get_pulls")  THEN [raised |-> TRUE, data |-> d1]
        ELSE IF Fails(f, k, "get_issues") THEN [raised |-> TRUE, data |-> d2]
        ELSE IF Fails(f, k, "summary")    THEN [raised |-> TRUE, data |-> d3]
        ELSE [raised |-> FALSE, data |-> d4]

\* lines 94-99: the organization's repositories if org is given, else the
\* named repositories if any are, else the first 10 of the user's own; h is what
\* the API serves for that lookup
ResolveRepos(org, repos, h) ==
    IF org # "" THEN h
    ELSE IF repos # <<>> THEN h
    ELSE SubSeq(h, 1, IF Len(h) < UserRepoLimit THEN Len(h) ELSE UserRepoLimit)

\* lines 101-153: the loop, left at the first exception
RECURSIVE FetchRepos(_, _, _, _, _)
FetchRepos(data, k, h, f, t) ==
    IF k > Len(h) THEN [raised |-> FALSE, data |-> data]
    ELSE LET r == FetchRepo(data, h[k], k, f, t) IN
         IF r.raised THEN r ELSE FetchRepos(r.data, k + 1, h, f, t)

EmptyData == [prs |-> <<>>, issues |-> <<>>, commits |-> <<>>, repos |-> <<>>]

get_github_data_keeping_partial(org, repos, h, f, t) ==
    IF f.call = "import" THEN [error |-> "PyGithub not installed"]
    ELSE LET r == FetchRepos(EmptyData, 1, ResolveRepos(org, repos, h), f, t) IN
         IF r.raised
         THEN [k \in (DOMAIN r.data) \cup {"error"} |->
                  IF k = "error" THEN "exception" ELSE r.data[k]]
         ELSE r.data

\* lines 78-158; t is datetime.now(); f.call = "import" is GITHUB_AVAILABLE
\* being False
get_github_data(org, repos, h, f, t) ==
    IF f.call = "import" THEN [error |-> "PyGithub not installed"]
    ELSE LET r == FetchRepos(EmptyData, 1, ResolveRepos(org, repos, h), f, t) IN
         IF r.raised THEN [error |-> "exception"] ELSE r.data

-----------------------------------------------------------------------------
(* Inputs of the calculators *)

\* a PR record as get_github_data builds it (lines 107-115)
ArgPR(number, d) ==
    [repo |-> "a/b", number |-> number, title |-> "pr", author |-> "dev",
     created_at |-> 0, days_open |-> d, url |-> "pull"]

\* an issue record as get_github_data builds it (lines 122-132)
ArgIssue(number, assignee, d) ==
    [repo |-> "a/b", number |-> number, title |-> "issue", author |-> "dev",
     assignee |-> assignee, created_at |-> 0, days_open |-> d,
     labels |-> <<>>, url |-> "issues"]

Assignees == {"Unassigned", "alice"}

ArgPRLists(n) ==
    {[i \in 1..Len(ds) |-> ArgPR(i, ds[i])] : ds \in SeqsUpTo(0..MaxDays, n)}

ArgIssueLists(n) ==
    {[i \in 1..Len(xs) |-> ArgIssue(i, xs[i][1], xs[i][2])] :
        xs \in SeqsUpTo(Assignees \X (0..MaxDays), n)}

\* status strings of the tracker, and "absent" for a record without the key
StatusValues ==
    { <<"d", "o", "n", "e">>,
      <<"D", "o", "n", "e">>,
      <<"C", "L", "O", "S", "E", "D">>,
      <<"C", "o", "m", "p", "l", "e", "t", "e", "d">>,
      <<"u", "n", "d", "o", "n", "e">>,
      <<"d", "o", "n", "e", " ">>,
      <<"I", "n", " ", "P", "r", "o", "g", "r", "e", "s", "s">>,
      <<"o", "p", "e", "n">>,
      <<>> }

ArgStatusIssue(number, st) ==
    IF st = <<"absent">> THEN [number |-> number]
    ELSE [number |-> number, status |-> st]

ArgStatusIssueLists(n) ==
    {[i \in 1..Len(xs) |-> ArgStatusIssue(i, xs[i])] :
        xs \in SeqsUpTo(StatusValues \cup {<<"absent">>}, n)}

\* a commit record as get_github_data builds it (lines 138-144)
ArgCommit(k, wall, tz) ==
    [repo |-> "a/b", sha |-> k, author |-> "dev",
     date |-> [wall |-> wall, tz |-> tz], message |-> "msg"]

ZoneSuffixes == {"Z", "-05:00"}

ArgCommitLists(n) ==
    {[i \in 1..Len(xs) |-> ArgCommit(i, xs[i][1], xs[i][2])] :
        xs \in SeqsUpTo(((-MaxAge)..(TicksPerDay - 1)) \X ZoneSuffixes, n)}

\* config.yaml: absent, empty, or with a blockers section
ConfigFiles ==
    { [exists |-> FALSE, yaml |-> <<>>],
      [exists |-> TRUE,  yaml |-> <<>>],
      [exists |-> TRUE,  yaml |-> [blockers |-> [pr_threshold_days |-> 5]]],
      [exists |-> TRUE,  yaml |-> [blockers |-> [issue_threshold_days |-> 2]]],
      [exists |-> TRUE,  yaml |-> [blockers |-> [pr_threshold_days |-> 5,
                                                 issue_threshold_days |-> 2]]] }

\* what the hosting API holds: items created a whole number of days before tick 0
HubPull(number, age) == [number |-> number, created_at |-> 0 - age * TicksPerDay]

HubIssue(number, age, assignee, is_pr) ==
    [number |-> number, created_at |-> 0 - age * TicksPerDay,
     assignee |-> assignee, pull_request |-> is_pr]

HubCommit(last, wall) ==
    [sha     |-> <<"a", "b", "c", "d", "e", "f", last, "0">>,
     date    |-> [wall |-> wall, tzinfo |-> "+00:00"],
     message |-> <<"subject", "body">>]

\* a commit of yesterday and one older than the default window
RecentCommit == HubCommit("1", 0 - 1)
OldCommit    == HubCommit("2", 0 - DefaultWindow * TicksPerDay - 1)

HubRepos ==
    { \* a busy repository
      [pulls   |-> <<HubPull(1, 8)>>,
       issues  |-> <<HubIssue(2, 5, "None", FALSE)>>,
       commits |-> <<RecentCommit, OldCommit>>,
       stars |-> 3, forks |-> 1, open_issues |-> 2],
      \* a fresh PR, which the issue listing repeats, and an assigned old issue
      [pulls   |-> <<HubPull(1, 2)>>,
       issues  |-> <<HubIssue(1, 2, "None", TRUE), HubIssue(3, 9, "alice", FALSE)>>,
       commits |-> <<RecentCommit>>,
       stars |-> 0, forks |-> 0, open_issues |-> 2],
      \* only unassigned issues
      [pulls   |-> <<>>,
       issues  |-> <<HubIssue(1, 9, "None", FALSE), HubIssue(2, 7, "None", FALSE)>>,
       commits |-> <<>>,
       stars |-> 0, forks |-> 0, open_issues |-> 2],
      \* an empty repository
      [pulls |-> <<>>, issues |-> <<>>, commits |-> <<>>,
       stars |-> 0, forks |-> 0, open_issues |-> 0] }

Hubs == SeqsUpTo(HubRepos, MaxRepos)

NoFault == [repo |-> 0, call |-> "none", after |-> 0]

\* the API calls of the fetch that can raise
Faults(h) ==
    {NoFault, [repo |-> 0, call |-> "import", after |-> 0]}
    \cup {[repo |-> k, call |-> c, after |-> 0] :
             k \in DOMAIN h, c \in {"get_repo", "summary"}}
    \cup UNION {{[repo |-> k, call |-> "get_pulls", after |-> n] :
                    n \in 0..Len(h[k].pulls)} : k \in DOMAIN h}
    \cup UNION {{[repo |-> k, call |-> "get_issues", after |-> n] :
                    n \in 0..Len(h[k].issues)} : k \in DOMAIN h}
    \cup UNION {{[repo |-> k, call |-> "get_commits", after |-> n] :
                    n \in 0..Len(h[k].commits)} : k \in DOMAIN h}

-----------------------------------------------------------------------------
(* Initial state: nothing called yet *)

NoVelocity == [commits_last_7d |-> 0, commits_per_day |-> <<0, 1>>,
               commits_by_day |-> <<>>, total_commits |-> 0]
NoProgress == [total |-> 0, completed |-> 0, percentage |-> <<0, 1>>]
NoData     == EmptyData

Init ==
    /\ pc = "idle"
    /\ prs = <<>>
    /\ issues = <<>>
    /\ commits = <<>>
    /\ pr_threshold = DefaultPRThreshold
    /\ issue_threshold = DefaultIssueThreshold
    /\ days = DefaultWindow
    /\ now = 0
    /\ blockers = <<>>
    /\ velocity = NoVelocity
    /\ feature_progress = NoProgress
    /\ config = DefaultConfig
    /\ hub = <<>>
    /\ fault = NoFault
    /\ github_data = NoData
    /\ called = {}

-----------------------------------------------------------------------------
(* The render cycle: main() *)

\* line 279
LoadConfig ==
    /\ pc = "idle"
    /\ \E file \in ConfigFiles : config' = load_config(file)
    /\ pc' = "sidebar"
    /\ UNCHANGED <<prs, issues, commits, pr_threshold, issue_threshold, days, now,
                   blockers, velocity, feature_progress, hub, fault, github_data,
                   called>>

\* lines 310-312: no token, the script returns before any network call
MissingToken ==
    /\ pc = "sidebar"
    /\ pc' = "no_token"
    /\ UNCHANGED <<prs, issues, commits, pr_threshold, issue_threshold, days, now,
                   blockers, velocity, feature_progress, config, hub, fault,
                   github_data, called>>

\* lines 282-308 with a token entered: the threshold input shows the configured
\* value, which the user may replace by any integer >= 1
Sidebar ==
    /\ pc = "sidebar"
    /\ \E v \in {SidebarPRThresholdValue(config), 1, MaxThreshold} :
          pr_threshold' = v
    /\ pc' = "ready"
    /\ UNCHANGED <<prs, issues, commits, issue_threshold, days, now, blockers,
                   velocity, feature_progress, config, hub, fault, github_data,
                   called>>

\* lines 315-319; the organization and repository inputs of the sidebar are left
\* at their configured values
Fetch ==
    /\ pc = "ready"
    /\ \E h \in Hubs :
         \E f \in Faults(h), t \in 0..(TicksPerDay - 1) :
           /\ hub' = h
           /\ fault' = f
           /\ now' = t
           /\ github_data' = get_github_data(config.github.org,
                                             config.github.repos, h, f, t)
    /\ pc' = "fetched"
    /\ UNCHANGED <<prs, issues, commits, pr_threshold, issue_threshold, days,
                   blockers, velocity, feature_progress, config, called>>

\* lines 321-323
ShowError ==
    /\ pc = "fetched"
    /\ "error" \in DOMAIN github_data
    /\ pc' = "error"
    /\ UNCHANGED <<prs, issues, commits, pr_threshold, issue_threshold, days, now,
                   blockers, velocity, feature_progress, config, hub, fault,
                   github_data, called>>

\* lines 325-335: identify_blockers is called with pr_threshold alone, so
\* issue_threshold is its default; calculate_velocity with its default window
\* (its datetime.now() is taken to be the fetch's)
CalculateMetrics ==
    /\ pc = "fetched"
    /\ "error" \notin DOMAIN github_data
    /\ issue_threshold' = DefaultIssueThreshold
    /\ days' = DefaultWindow
    /\ blockers' = identify_blockers(github_data.prs, github_data.issues,
                                     pr_threshold, DefaultIssueThreshold)
    /\ velocity' = calculate_velocity(github_data.commits, github_data.prs,
                                      DefaultWindow, now)
    /\ feature_progress' = calculate_feature_progress(github_data.issues)
    /\ called' = {"identify_blockers", "calculate_velocity",
                  "calculate_feature_progress"}
    /\ pc' = "rendered"
    /\ UNCHANGED <<prs, issues, commits, pr_threshold, now, config, hub, fault,
                   github_data>>

\* lines 307-308: Refresh Data pressed, st.rerun() leaves the script inside the
\* sidebar block (pc = "sidebar"), before the token test, the fetch and every
\* calculator; and after a run has ended (no token, error shown, page rendered)
\* the next interaction runs the script again.  Either way every local of the
\* run is discarded and the script starts from the top.
Rerun ==
    /\ pc \in {"sidebar", "no_token", "error", "rendered"}
    /\ pc' = "idle"
    /\ pr_threshold' = DefaultPRThreshold
    /\ issue_threshold' = DefaultIssueThreshold
    /\ days' = DefaultWindow
    /\ now' = 0
    /\ blockers' = <<>>
    /\ velocity' = NoVelocity
    /\ feature_progress' = NoProgress
    /\ config' = DefaultConfig
    /\ hub' = <<>>
    /\ fault' = NoFault
    /\ github_data' = NoData
    /\ called' = {}
    /\ UNCHANGED <<prs, issues, commits>>

Next ==
    \/ LoadConfig
    \/ MissingToken
    \/ Sidebar
    \/ Fetch
    \/ ShowError
    \/ CalculateMetrics
    \/ Rerun

Spec == Init /\ [][Next]_vars

-----------------------------------------------------------------------------
(* Specification of identify_blockers on arbitrary arguments *)

CallIdentifyBlockers ==
    /\ pc = "idle"
    /\ \E np \in 0..MaxItems :
         \E ps \in ArgPRLists(np), is \in ArgIssueLists(MaxItems - np) :
           \E prt \in 1..MaxThreshold, ist \in 1..MaxThreshold :
             /\ prs' = ps
             /\ issues' = is
             /\ pr_threshold' = prt
             /\ issue_threshold' = ist
             /\ blockers' = identify_blockers(ps, is, prt, ist)
    /\ pc' = "identify_blockers"
    /\ called' = {"identify_blockers"}
    /\ UNCHANGED <<commits, days, now, velocity, feature_progress, config, hub,
                   fault, github_data>>

SpecBlockers == Init /\ [][CallIdentifyBlockers]_vars

-----------------------------------------------------------------------------
(* Specification of calculate_feature_progress on arbitrary arguments *)

CallCalculateFeatureProgress ==
    /\ pc = "idle"
    /\ \E is \in ArgStatusIssueLists(MaxStatusIssues) :
         /\ issues' = is
         /\ feature_progress' = calculate_feature_progress(is)
    /\ pc' = "calculate_feature_progress"
    /\ called' = {"calculate_feature_progress"}
    /\ UNCHANGED <<prs, commits, pr_threshold, issue_threshold, days, now,
                   blockers, velocity, config, hub, fault, github_data>>

SpecProgress == Init /\ [][CallCalculateFeatureProgress]_vars

-----------------------------------------------------------------------------
(* Specification of calculate_velocity on arbitrary arguments *)

CallCalculateVelocity ==
    /\ pc = "idle"
    /\ \E cs \in ArgCommitLists(MaxCommits), ps \in {<<>>, <<ArgPR(1, MaxDays)>>} :
         \E d \in 0..MaxWindow, t \in 0..(TicksPerDay - 1) :
           /\ commits' = cs
           /\ prs' = ps
           /\ days' = d
           /\ now' = t
           /\ velocity' = calculate_velocity(cs, ps, d, t)
    /\ pc' = "calculate_velocity"
    /\ called' = {"calculate_velocity"}
    /\ UNCHANGED <<issues, pr_threshold, issue_threshold, blockers,
                   feature_progress, config, hub, fault, github_data>>

SpecVelocity == Init /\ [][CallCalculateVelocity]_vars

-----------------------------------------------------------------------------
(* Properties of identify_blockers *)

BlockersDone == pc = "identify_blockers"

PRDescription(pr) ==
    "PR #" \o IntStr(pr.number) \o " open for " \o IntStr(pr.days_open) \o " days"

IssueDescription(issue) ==
    "Issue #" \o IntStr(issue.number) \o " unassigned for "
       \o IntStr(issue.days_open) \o " days"

\* positions of the output that hold the blocker made from this PR / this issue
BlockersOfPR(pr) ==
    {j \in DOMAIN blockers :
        /\ blockers[j].type = "PR"
        /\ blockers[j].days = pr.days_open
        /\ blockers[j].description = PRDescription(pr)}

BlockersOfIssue(issue) ==
    {j \in DOMAIN blockers :
        /\ blockers[j].type = "Issue"
        /\ blockers[j].days = issue.days_open
        /\ blockers[j].description = IssueDescription(issue)}

\* C1: the list returned by identify_blockers is sorted non-increasing by days:
\* every blocker's days is >= the days of the blocker that follows it, PR and
\* issue blockers taken together in that one order.
C1_SortedNonIncreasing ==
    BlockersDone =>
        \A j \in 1..(Len(blockers) - 1) : blockers[j].days >= blockers[j + 1].days

\* an issue blocker that was appended after a PR blocker comes out before it
C1_Witness ==
    /\ BlockersDone
    /\ Len(blockers) = 2
    /\ blockers[1].type = "Issue"
    /\ blockers[2].type = "PR"
    /\ blockers[1].days > blockers[2].days

\* C2: exactly one PR blocker for each input PR with days_open > pr_threshold and
\* none for any other PR, so the number of PR blockers is the number of such PRs.
C2_PRBlockerIffOverThreshold ==
    BlockersDone =>
        /\ \A i \in DOMAIN prs :
              Cardinality(BlockersOfPR(prs[i])) =
                 IF prs[i].days_open > pr_threshold THEN 1 ELSE 0
        /\ Cardinality({j \in DOMAIN blockers : blockers[j].type = "PR"}) =
              Cardinality({i \in DOMAIN prs : prs[i].days_open > pr_threshold})

\* one PR exactly at the threshold (no blocker), one a day older (a blocker)
C2_Witness ==
    /\ BlockersDone
    /\ Len(prs) = 2
    /\ prs[1].days_open = pr_threshold
    /\ prs[2].days_open = pr_threshold + 1
    /\ Len(blockers) = 1
    /\ blockers[1].type = "PR"
    /\ blockers[1].days = pr_threshold + 1

\* C3: a PR blocker is high exactly when its days_open > 7 and medium otherwise,
\* whatever pr_threshold is: with pr_threshold >= 7 every PR blocker is high;
\* no blocker of either type is low.
C3_SeverityByFixedSeven ==
    BlockersDone =>
        /\ \A j \in DOMAIN blockers :
              /\ blockers[j].severity \in {"high", "medium"}
              /\ blockers[j].type = "PR" =>
                    /\ (blockers[j].severity = "high") <=> (blockers[j].days > 7)
                    /\ (blockers[j].severity = "medium") <=> (blockers[j].days <= 7)
        /\ pr_threshold >= 7 =>
              \A j \in DOMAIN blockers :
                  blockers[j].type = "PR" => blockers[j].severity = "high"

\* threshold 3: the 8-day PR is high, the 5-day PR is medium
C3_Witness ==
    /\ BlockersDone
    /\ pr_threshold = 3
    /\ Len(blockers) = 2
    /\ blockers[1].type = "PR" /\ blockers[1].days = 8 /\ blockers[1].severity = "high"
    /\ blockers[2].type = "PR" /\ blockers[2].days = 5 /\ blockers[2].severity = "medium"

\* C4: an issue yields an Issue blocker iff its assignee is "Unassigned" and its
\* days_open > issue_threshold; every Issue blocker is medium.
C4_IssueBlockerIffUnassignedOverThreshold ==
    BlockersDone =>
        /\ \A i \in DOMAIN issues :
              Cardinality(BlockersOfIssue(issues[i])) =
                 IF issues[i].assignee = "Unassigned"
                    /\ issues[i].days_open > issue_threshold
                 THEN 1 ELSE 0
        /\ Cardinality({j \in DOMAIN blockers : blockers[j].type = "Issue"}) =
              Cardinality({i \in DOMAIN issues :
                             /\ issues[i].assignee = "Unassigned"
                             /\ issues[i].days_open > issue_threshold})
        /\ \A j \in DOMAIN blockers :
              blockers[j].type = "Issue" => blockers[j].severity = "medium"

\* also reachable: an unassigned issue at the threshold and an assigned one over
\* it, neither a blocker
C4_WitnessExcluded ==
    /\ BlockersDone
    /\ Len(issues) = 2
    /\ issues[1].assignee = "Unassigned" /\ issues[1].days_open = issue_threshold
    /\ issues[2].assignee = "alice" /\ issues[2].days_open > issue_threshold
    /\ blockers = <<>>

\* an unassigned issue one day over the threshold is the one blocker, medium
C4_Witness ==
    /\ BlockersDone
    /\ Len(issues) = 2
    /\ issues[1].assignee = "alice" /\ issues[1].days_open = issue_threshold + 1
    /\ issues[2].assignee = "Unassigned" /\ issues[2].days_open = issue_threshold + 1
    /\ Len(blockers) = 1
    /\ blockers[1].type = "Issue"
    /\ blockers[1].severity = "medium"
    /\ blockers[1].description = IssueDescription(issues[2])

-----------------------------------------------------------------------------
(* Properties of calculate_feature_progress *)

ProgressDone == pc = "calculate_feature_progress"

\* the status spells the (lower-case) word, in any mix of cases
SpellsIgnoringCase(st, word) ==
    /\ Len(st) = Len(word)
    /\ \A k \in DOMAIN word :
          \/ st[k] = word[k]
          \/ \E l \in DOMAIN LowerLetters :
                LowerLetters[l] = word[k] /\ UpperLetters[l] = st[k]

CompletedIssues ==
    {i \in DOMAIN issues :
        /\ "status" \in DOMAIN issues[i]
        /\ \E word \in {StrDone, StrClosed, StrCompleted} :
              SpellsIgnoringCase(issues[i].status, word)}

\* C8: percentage = completed / total * 100 and lies in [0, 100]; completed
\* counts the issues whose lower-cased status is exactly done, closed or
\* completed, so 0 <= completed <= total; percentage is 0 for the empty list.
C8_PercentageOfCompleted ==
    ProgressDone =>
        LET p == feature_progress IN
        /\ p.total = Len(issues)
        /\ p.completed = Cardinality(CompletedIssues)
        /\ 0 <= p.completed /\ p.completed <= p.total
        /\ p.percentage[2] > 0
        /\ 0 <= p.percentage[1] /\ p.percentage[1] <= 100 * p.percentage[2]
        /\ p.total > 0 => p.percentage[1] * p.total = 100 * p.completed * p.percentage[2]
        /\ issues = <<>> => p.percentage[1] = 0

\* one of three issues is completed ("Done"): 33.3 percent
C8_Witness ==
    /\ ProgressDone
    /\ Len(issues) = 3
    /\ issues[1] = ArgStatusIssue(1, <<"D", "o", "n", "e">>)
    /\ issues[2] = ArgStatusIssue(2, <<"u", "n", "d", "o", "n", "e">>)
    /\ issues[3] = ArgStatusIssue(3, <<"I", "n", " ", "P", "r", "o", "g", "r", "e", "s", "s">>)
    /\ feature_progress.completed = 1
    /\ feature_progress.in_progress = 1
    /\ feature_progress.percentage = <<100, 3>>

-----------------------------------------------------------------------------
(* Properties of calculate_velocity *)

VelocityDone == pc = "calculate_velocity"

\* the input commits whose timestamp is strictly after now - days
CommitsInWindow ==
    {i \in DOMAIN commits : commits[i].date.wall > now - days * TicksPerDay}

\* the input commits in the window whose timestamp falls on calendar day d
CommitsInWindowOn(d) ==
    {i \in CommitsInWindow :
        /\ d * TicksPerDay <= commits[i].date.wall
        /\ commits[i].date.wall < (d + 1) * TicksPerDay}

\* C7: commits_last_7d is the number of commits strictly after now - days;
\* commits_per_day is that number / days (0 when days is 0); total_commits is the
\* length of the whole input; commits_by_day has exactly the calendar dates of
\* the in-window commits as keys, every value >= 1, the values counting the
\* in-window commits of that date (so they sum to commits_last_7d), and is empty
\* when no commit is in the window; the PR list changes none of this.
C7_VelocityOfWindow ==
    VelocityDone =>
        LET v == velocity IN
        /\ v.commits_last_7d = Cardinality(CommitsInWindow)
        /\ days > 0 => /\ v.commits_per_day[2] > 0
                       /\ v.commits_per_day[1] * days =
                             Cardinality(CommitsInWindow) * v.commits_per_day[2]
        /\ days = 0 => v.commits_per_day[1] = 0
        /\ v.total_commits = Len(commits)
        /\ \A i \in CommitsInWindow :
              \E d \in DOMAIN v.commits_by_day : i \in CommitsInWindowOn(d)
        /\ \A d \in DOMAIN v.commits_by_day :
              /\ v.commits_by_day[d] >= 1
              /\ v.commits_by_day[d] = Cardinality(CommitsInWindowOn(d))
        /\ CommitsInWindow = {} => DOMAIN v.commits_by_day = {}
        /\ v = calculate_velocity(commits, <<>>, days, now)

\* a one-day window, a PR list given: one commit exactly at the cutoff (left
\* out), one a tick later (counted)
C7_Witness ==
    /\ VelocityDone
    /\ days = 1
    /\ prs # <<>>
    /\ Len(commits) = 2
    /\ commits[1].date.wall = now - days * TicksPerDay
    /\ commits[2].date.wall = now - days * TicksPerDay + 1
    /\ velocity.commits_last_7d = 1
    /\ velocity.total_commits = 2
    /\ velocity.commits_per_day = <<1, 1>>
    /\ DOMAIN velocity.commits_by_day = {(now - days * TicksPerDay + 1) \div TicksPerDay}

-----------------------------------------------------------------------------
(* Properties of the render cycle *)

\* the calls whose failure is not caught inside the loop
FatalCalls == {"get_repo", "get_pulls", "get_issues", "summary"}

\* C5: when resolving a repository, listing open PRs, listing open issues or
\* reading a repository's summary fails, get_github_data returns the error
\* descriptor alone (none of the records gathered before the failure), and the
\* cycle ends without calling any of the three calculators.
C5_FetchFailureReturnsOnlyError ==
    fault.call \in FatalCalls =>
        /\ DOMAIN github_data = {"error"}
        /\ pc \in {"fetched", "error"}
        /\ called = {}
        /\ blockers = <<>>
        /\ velocity = NoVelocity
        /\ feature_progress = NoProgress

\* the issue listing of the second repository raises after one item, the first
\* repository (a PR, an issue, two commits) having been processed in full
C5_Witness ==
    /\ pc = "error"
    /\ Len(hub) = 2
    /\ fault = [repo |-> 2, call |-> "get_issues", after |-> 1]
    /\ Len(hub[1].pulls) = 1 /\ Len(hub[1].issues) = 1 /\ Len(hub[1].commits) = 2
    /\ Len(hub[2].pulls) = 1
    /\ DOMAIN github_data = {"error"}
    /\ called = {}

\* C6: when the commit listing of one repository fails, on the call or while
\* iterating, get_github_data returns the record collections, with the PRs,
\* issues and summary of every repository, and with no commit record of the
\* failing repository.
C6_CommitFailureContributesNoCommits ==
    fault.call = "get_commits" =>
        /\ DOMAIN github_data = {"prs", "issues", "commits", "repos"}
        /\ Len(github_data.repos) = Len(hub)
        /\ \A k \in DOMAIN hub :
              /\ github_data.repos[k].name = RepoName(k)
              /\ Cardinality({i \in DOMAIN github_data.prs :
                                github_data.prs[i].repo = RepoName(k)})
                    = Len(hub[k].pulls)
              /\ Cardinality({i \in DOMAIN github_data.issues :
                                github_data.issues[i].repo = RepoName(k)})
                    = Cardinality({n \in DOMAIN hub[k].issues :
                                     ~hub[k].issues[n].pull_request})
        /\ \A i \in DOMAIN github_data.commits :
              github_data.commits[i].repo # RepoName(fault.repo)

\* the part of C6 that the code satisfies: the fetch is not aborted, and every
\* repository's PRs, issues and summary are in the result
CommitFailureDoesNotAbort ==
    fault.call = "get_commits" =>
        /\ DOMAIN github_data = {"prs", "issues", "commits", "repos"}
        /\ Len(github_data.repos) = Len(hub)
        /\ \A k \in DOMAIN hub :
              /\ github_data.repos[k].name = RepoName(k)
              /\ Cardinality({i \in DOMAIN github_data.prs :
                                github_data.prs[i].repo = RepoName(k)})
                    = Len(hub[k].pulls)
              /\ Cardinality({i \in DOMAIN github_data.issues :
                                github_data.issues[i].repo = RepoName(k)})
                    = Cardinality({n \in DOMAIN hub[k].issues :
                                     ~hub[k].issues[n].pull_request})
        \* what the failing repository does contribute: the commits yielded
        \* before the failure
        /\ Cardinality({i \in DOMAIN github_data.commits :
                          github_data.commits[i].repo = RepoName(fault.repo)})
              = fault.after

\* the issue-age threshold of the resolved configuration, 7 when not configured
ConfiguredIssueThreshold ==
    IF "blockers" \in DOMAIN config /\ "issue_threshold_days" \in DOMAIN config.blockers
    THEN config.blockers.issue_threshold_days
    ELSE 7

\* the blockers of the cycle made from this fetched PR / issue
CycleBlockersOf(type, rec, description) ==
    {j \in DOMAIN blockers :
        /\ blockers[j].type = type
        /\ blockers[j].repo = rec.repo
        /\ blockers[j].days = rec.days_open
        /\ blockers[j].description = description}

\* C9: in a render cycle a PR is a blocker exactly when its days_open exceeds
\* the configured PR-age threshold, and an unassigned issue is a blocker exactly
\* when its days_open exceeds the issue-age threshold of the resolved
\* configuration (7 when not configured).
C9_ConfiguredThresholdsGovern ==
    pc = "rendered" =>
        /\ \A i \in DOMAIN github_data.prs :
              LET pr == github_data.prs[i] IN
              (CycleBlockersOf("PR", pr, PRDescription(pr)) # {})
                 <=> (pr.days_open > pr_threshold)
        /\ \A i \in DOMAIN github_data.issues :
              LET issue == github_data.issues[i] IN
              (CycleBlockersOf("Issue", issue, IssueDescription(issue)) # {})
                 <=> (/\ issue.assignee = "Unassigned"
                      /\ issue.days_open > ConfiguredIssueThreshold)

\* the part of C9 that the code satisfies: the PR threshold of the sidebar is the
\* one PRs are judged against, and issues are judged against the fixed default
ThresholdsUsedByCycle ==
    pc = "rendered" =>
        /\ \A i \in DOMAIN github_data.prs :
              LET pr == github_data.prs[i] IN
              (CycleBlockersOf("PR", pr, PRDescription(pr)) # {})
                 <=> (pr.days_open > pr_threshold)
        /\ \A i \in DOMAIN github_data.issues :
              LET issue == github_data.issues[i] IN
              (CycleBlockersOf("Issue", issue, IssueDescription(issue)) # {})
                 <=> (/\ issue.assignee = "Unassigned"
                      /\ issue.days_open > DefaultIssueThreshold)

\* C10: the issue records of get_github_data carry no status, so after every
\* successful fetch calculate_feature_progress returns completed = 0 and
\* percentage = 0 (and in_progress = 0 for a non-empty list); total is the
\* number of fetched issues.
C10_CycleProgressAlwaysZero ==
    pc = "rendered" =>
        /\ "calculate_feature_progress" \in called
        /\ \A i \in DOMAIN github_data.issues :
              "status" \notin DOMAIN github_data.issues[i]
        /\ feature_progress.total = Len(github_data.issues)
        /\ feature_progress.completed = 0
        /\ feature_progress.percentage[1] = 0
        /\ github_data.issues # <<>> => feature_progress.in_progress = 0

\* three issues fetched from two repositories, none counted as completed
C10_Witness ==
    /\ pc = "rendered"
    /\ Len(hub) = 2
    /\ Len(github_data.issues) = 3
    /\ feature_progress.total = 3
    /\ feature_progress.completed = 0
    /\ feature_progress.in_progress = 0
    /\ feature_progress.percentage = <<0, 1>>

=============================================================================
